---- MODULE Spec2Model ----
(***************************************************************************)
(* Model of the interactive dashboard of C1_W2_Dashboard.ipynb: the table  *)
(* product_sales_df returned by the Athena query, the five ipywidgets that *)
(* drive plot_top_n_sales, and the function's filter / aggregate / sort /  *)
(* truncate / plot cascade.                                                *)
(*                                                                         *)
(* Tables are sets of rows.  The SQL query groups by (orderDate,           *)
(* productLine, productName, country), so the loaded table holds one row   *)
(* per such key; every aggregated table holds one row per grouping key.    *)
(* Dates are day numbers of 2024 (1 = Jan 1, 31 = Jan 31, 32 = Feb 1);     *)
(* timestamps are hours since the start of the year.  The key columns and  *)
(* total_sales are taken to be non-null, and total_sales to be integral.   *)
(*                                                                         *)
(* A second specification, SpecTf, models the Terraform fragment: the four *)
(* Glue resources, the references between them, and their creation in      *)
(* dependency order with every reference resolved against the state.       *)
(***************************************************************************)
EXTENDS Integers, Sequences, FiniteSets, TLC

VARIABLES
    product_sales_df,   \* the table as held by the notebook
    loaded_df,          \* the table as the query returned it (history)
    start_date,         \* DatePicker "Start Date"
    end_date,           \* DatePicker "End Date"
    country,            \* Dropdown "Country"
    productline,        \* Dropdown "Product Line"
    top_n,              \* IntSlider "Top N"
    pc,                 \* "created": the widgets exist, nothing shown yet
                        \* "shown":   plot_top_n_sales has returned
                        \* "closed":  the dashboard cell has not been run
    filtered_df,        \* the local filtered_df at the end of the cascade
    barplot_called,     \* whether sns.barplot was called in the last call
    barplot_data,       \* the data= argument of that call
    ax_title,           \* the title set by ax.set, <<>> when none was set
    printed,            \* what the last call printed, <<>> when nothing
    raised,             \* where the last call raised: "none", "sort", "plot"
    propagated,         \* whether that exception left plot_top_n_sales
    first_args,         \* the date range, country and product line of the
                        \* first call (history)
    first_filtered,     \* the local filtered_df of the first call (history)
    away,               \* whether a date, country or product-line widget
                        \* has been changed since the first call (history)
    tf_var,             \* the Terraform input variables
    tf_state            \* the Terraform state: resource name -> attributes

dashvars == <<product_sales_df, loaded_df, start_date, end_date, country,
              productline, top_n, pc, filtered_df, barplot_called,
              barplot_data, ax_title, printed, raised, propagated,
              first_args, first_filtered, away>>

tfvars == <<tf_var, tf_state>>

vars == <<dashvars, tfvars>>

---------------------------------------------------------------------------
(* Bounds and input domains *)

\* The largest number of rows of the query result.
MaxRows == 2

\* The order dates in the data, and the dates picked in the two DatePickers:
\* ranges that hold both order dates, one of them, or none (start > end).
OrderDates == {1, 32}
StartDates == {1, 32}
EndDates == {31, 32}
\* The products on sale, as (productLine, productName): two products of one
\* line, and one name carried by products of two lines.
Products == {<<"Motorcycles", "P1">>, <<"Motorcycles", "P2">>,
             <<"Planes", "P1">>}
Countries == {"USA", "France"}
Amounts == {50, 100}

MinTopN == 1
MaxTopN == 10
DefaultTopN == 5

ALL == "ALL"

---------------------------------------------------------------------------
(* Conversions *)

\* pd.to_datetime / pd.Timestamp of a calendar date: midnight of that day.
Timestamp(d) == (d - 1) * 24

\* Timestamp.date(), as the DatePicker shows a default value.
DateOf(ts) == (ts \div 24) + 1

---------------------------------------------------------------------------
(* Tables *)

RECURSIVE SumSales(_)
SumSales(T) ==
    IF T = {} THEN 0
    ELSE LET r == CHOOSE x \in T : TRUE
         IN  r.total_sales + SumSales(T \ {r})

SetMin(S) == CHOOSE x \in S : \A y \in S : x <= y
SetMax(S) == CHOOSE x \in S : \A y \in S : x >= y
Min(a, b) == IF a <= b THEN a ELSE b

\* The rows the query can return.
QueryRows ==
    {[orderdate |-> Timestamp(d), productline |-> p[1], productname |-> p[2],
      country |-> c, total_sales |-> a]
        : d \in OrderDates, p \in Products, c \in Countries, a \in Amounts}

RowKey(r) == <<r.orderdate, r.productline, r.productname, r.country>>

\* GROUP BY 1, 2, 3, 4: one row per key.
UniqueKeys(T) == \A r1, r2 \in T : RowKey(r1) = RowKey(r2) => r1 = r2

\* The sets of at most n rows, and at least one when n > 0.
RECURSIVE TablesOfSize(_)
TablesOfSize(n) ==
    IF n = 0 THEN {{}}
    ELSE {T \cup {r} : T \in TablesOfSize(n - 1), r \in QueryRows}

QueryResults ==
    {T \in UNION {TablesOfSize(n) : n \in 1..MaxRows} : UniqueKeys(T)}

---------------------------------------------------------------------------
(* The steps of plot_top_n_sales *)

\* The selection with the end date left out of the range.
DateFilter_ExclusiveEnd(df, s, e) ==
    {r \in df : r.orderdate >= Timestamp(s) /\ r.orderdate < Timestamp(e)}

\* Boolean-mask selection on orderdate, both ends inclusive.
DateFilter(df, s, e) ==
    {r \in df : r.orderdate >= Timestamp(s) /\ r.orderdate <= Timestamp(e)}

\* drop('orderdate') followed by groupby([productline, productname,
\* country]).sum().reset_index(): orderdate takes no part in the keys or the
\* sum.
GroupByLineNameCountry(T) ==
    {[productline |-> k[1], productname |-> k[2], country |-> k[3],
      total_sales |-> SumSales({r \in T : <<r.productline, r.productname,
                                            r.country>> = k})]
        : k \in {<<r.productline, r.productname, r.country>> : r \in T}}

\* groupby([productname, country]).sum().reset_index().  sum() also joins
\* the strings of the productline column; no later step reads that column,
\* and it is left out of the rows.
GroupByNameCountry(T) ==
    {[productname |-> k[1], country |-> k[2],
      total_sales |-> SumSales({r \in T : <<r.productname, r.country>> = k})]
        : k \in {<<r.productname, r.country>> : r \in T}}

\* groupby([productname]).sum().reset_index(), the joined productline and
\* country strings left out likewise.
GroupByName(T) ==
    {[productname |-> k,
      total_sales |-> SumSales({r \in T : r.productname = k})]
        : k \in {r.productname : r \in T}}

\* The product-line step without the re-aggregation of the "ALL" branch.
ProductLineStep_NoRegroup(T, pl) ==
    IF pl # ALL THEN {r \in T : r.productline = pl}
    ELSE T

\* The product-line step without the selection of the chosen line.
ProductLineStep_NoFilter(T, pl) == GroupByNameCountry(T)

ProductLineStep(T, pl) ==
    IF pl # ALL THEN {r \in T : r.productline = pl}
    ELSE GroupByNameCountry(T)

\* The country step without the re-aggregation of the "ALL" branch.
CountryStep_NoRegroup(T, c) ==
    IF c # ALL THEN {r \in T : r.country = c}
    ELSE T

CountryStep(T, c) ==
    IF c # ALL THEN {r \in T : r.country = c}
    ELSE GroupByName(T)

Cascade(df, s, e, c, pl) ==
    CountryStep(ProductLineStep(GroupByLineNameCountry(DateFilter(df, s, e)),
                                pl), c)

\* sort_values("total_sales", ascending=False): the default sort kind is not
\* stable, so rows of equal total_sales may come out in any order.
IsSortedDescending(seq) ==
    \A i, j \in 1..Len(seq) : i < j => seq[i].total_sales >= seq[j].total_sales

\* sort_values without ascending=False.
SortValuesAscending(T) ==
    {seq \in [1..Cardinality(T) -> T] :
        /\ \A r \in T : \E i \in 1..Cardinality(T) : seq[i] = r
        /\ \A i, j \in 1..Len(seq) :
              i < j => seq[i].total_sales <= seq[j].total_sales}

SortValuesDescending(T) ==
    {seq \in [1..Cardinality(T) -> T] :
        /\ \A r \in T : \E i \in 1..Cardinality(T) : seq[i] = r
        /\ IsSortedDescending(seq)}

\* head with the slider value off by one.
Head_n_OffByOne(seq, n) == SubSeq(seq, 1, Min(n + 1, Len(seq)))

\* DataFrame.head(n)
Head_n(seq, n) == SubSeq(seq, 1, Min(n, Len(seq)))

TitleStr(n, c, pl) ==
    <<"Top", n, "Popular">>
        \o (IF pl # ALL THEN <<pl>> ELSE <<"Products">>)
        \o (IF c # ALL THEN <<"in", c>> ELSE <<>>)

NoSalesMessage(c, pl) ==
    <<"There were no sales of", pl, "to", c, "during that period">>

ErrorMessage == <<"error">>

\* The emptiness test always answering "not empty".
IsEmpty_Never(T) == FALSE

\* filtered_df.empty
IsEmpty(T) == T = {}

\* What can be raised inside the try block: ordinary exceptions, and
\* BaseExceptions such as KeyboardInterrupt.
ExceptionKinds == {"Exception", "KeyboardInterrupt"}

\* "except Exception:" in place of the bare clause.
Caught_ExceptionOnly(kind) == kind = "Exception"

\* The bare "except:" clause catches every kind.
Caught(kind) == TRUE

\* The date selection done in place on product_sales_df.
TableAfterCall_InPlace(df, s, e) == DateFilter(df, s, e)

\* No statement of plot_top_n_sales assigns to product_sales_df or changes it
\* in place: each step rebinds the local filtered_df.
TableAfterCall(df, s, e) == df

---------------------------------------------------------------------------
(* The Terraform fragment *)

Projects == {"de-c1w2", "de-c3w1"}
Hosts == {"db-a.example", "db-b.example"}
Databases == {"classicmodels", "sales"}
Buckets == {"lake-a", "lake-b"}

\* Every var.* the fragment reads, and the attributes it reads of the IAM
\* role and the data sources declared outside it; those not varied here hold
\* one value.
VariableValues ==
    [project : Projects, host : Hosts, port : {"3306"}, database : Databases,
     username : {"admin"}, password : {"secret"},
     data_lake_bucket : Buckets, scripts_bucket : {"scripts"},
     scripts_key : {"glue_job.py"}, glue_role_arn : {"arn:glue-role"},
     subnet_az : {"us-east-1a"}, subnet_id : {"subnet-a"},
     db_sg_id : {"sg-db"}]

NoVariables == [project |-> "", host |-> "", port |-> "", database |-> "",
                username |-> "", password |-> "", data_lake_bucket |-> "",
                scripts_bucket |-> "", scripts_key |-> "",
                glue_role_arn |-> "", subnet_az |-> "", subnet_id |-> "",
                db_sg_id |-> ""]

NoResources == [a \in {} |-> {}]

ResourceNames == {"ml_database", "rds_connection", "s3_crawler", "etl_job"}

\* resource "aws_glue_catalog_database" "ml_database"
ml_database(var, state) ==
    [name |-> <<var.project, "-ml-db">>,
     description |-> "Database for performing ml from OLTP data"]

\* resource "aws_glue_connection" "rds_connection"
rds_connection(var, state) ==
    [name |-> <<var.project, "-rds-connection">>,
     connection_properties |->
        [JDBC_CONNECTION_URL |-> <<"jdbc:mysql://", var.host, ":", var.port,
                                   "/", var.database>>,
         USERNAME |-> var.username,
         PASSWORD |-> var.password],
     physical_connection_requirements |->
        [availability_zone |-> var.subnet_az,
         security_group_id_list |-> <<var.db_sg_id>>,
         subnet_id |-> var.subnet_id]]

\* resource "aws_glue_crawler" "s3_crawler"
s3_crawler(var, state) ==
    [name |-> <<var.project, "-ml-db-crawler">>,
     database_name |-> state.ml_database.name,
     role |-> var.glue_role_arn,
     s3_target |-> [path |-> <<"s3://", var.data_lake_bucket, "/gold">>],
     recrawl_policy |-> [recrawl_behavior |-> "CRAWL_NEW_FOLDERS_ONLY"],
     schema_change_policy |-> [delete_behavior |-> "LOG",
                               update_behavior |-> "LOG"]]

\* resource "aws_glue_job" "etl_job", with "--glue_database" naming a
\* database of its own instead of referring to ml_database.
etl_job_OwnDatabase(var, state) ==
    [name |-> <<var.project, "-etl-job">>,
     role_arn |-> var.glue_role_arn,
     glue_version |-> "4.0",
     connections |-> <<state.rds_connection.name>>,
     command |-> [name |-> "glueetl",
                  script_location |-> <<"s3://", var.scripts_bucket, "/",
                                        var.scripts_key>>,
                  python_version |-> 3],
     default_arguments |->
        ("--enable-job-insights" :> <<"true">>)
        @@ ("--job-language" :> <<"python">>)
        @@ ("--glue_connection" :> state.rds_connection.name)
        @@ ("--glue_database" :> <<var.project, "-db">>)
        @@ ("--target_path" :> <<"s3://", var.data_lake_bucket>>),
     timeout |-> 5,
     number_of_workers |-> 2,
     worker_type |-> "G.1X"]

\* resource "aws_glue_job" "etl_job"
etl_job(var, state) ==
    [name |-> <<var.project, "-etl-job">>,
     role_arn |-> var.glue_role_arn,
     glue_version |-> "4.0",
     connections |-> <<state.rds_connection.name>>,
     command |-> [name |-> "glueetl",
                  script_location |-> <<"s3://", var.scripts_bucket, "/",
                                        var.scripts_key>>,
                  python_version |-> 3],
     default_arguments |->
        ("--enable-job-insights" :> <<"true">>)
        @@ ("--job-language" :> <<"python">>)
        @@ ("--glue_connection" :> state.rds_connection.name)
        @@ ("--glue_database" :> state.ml_database.name)
        @@ ("--target_path" :> <<"s3://", var.data_lake_bucket>>),
     timeout |-> 5,
     number_of_workers |-> 2,
     worker_type |-> "G.1X"]

\* The resources of the fragment each resource block refers to.
References ==
    [r \in ResourceNames |->
        CASE r = "ml_database" -> {}
          [] r = "rds_connection" -> {}
          [] r = "s3_crawler" -> {"ml_database"}
          [] r = "etl_job" -> {"rds_connection", "ml_database"}]

Attributes(r, var, state) ==
    CASE r = "ml_database" -> ml_database(var, state)
      [] r = "rds_connection" -> rds_connection(var, state)
      [] r = "s3_crawler" -> s3_crawler(var, state)
      [] r = "etl_job" -> etl_job(var, state)

---------------------------------------------------------------------------
(* Widgets *)

CountryOptions(df) == {ALL} \cup {r.country : r \in df}
ProductLineOptions(df) == {ALL} \cup {r.productline : r \in df}
\* The slider positions tried: both ends of the slider and its default.
TopNValues == {MinTopN, DefaultTopN, MaxTopN}

Init ==
    /\ product_sales_df \in QueryResults
    /\ loaded_df = product_sales_df
    /\ start_date = DateOf(SetMin({r.orderdate : r \in product_sales_df}))
    /\ end_date = DateOf(SetMax({r.orderdate : r \in product_sales_df}))
    /\ country = ALL
    /\ productline = ALL
    /\ top_n = DefaultTopN
    /\ pc = "created"
    /\ filtered_df = {}
    /\ barplot_called = FALSE
    /\ barplot_data = <<>>
    /\ ax_title = <<>>
    /\ printed = <<>>
    /\ raised = "none"
    /\ propagated = FALSE
    /\ first_args = <<>>
    /\ first_filtered = {}
    /\ away = FALSE
    /\ tf_var = NoVariables
    /\ tf_state = NoResources

\* What the try block can do with a non-empty table: run to the end, or
\* raise while sorting and truncating (before sns.barplot is called), or
\* raise in sns.barplot or ax.set.  A caught exception prints "error"; one
\* that is not caught leaves the function.
TryBlock(T, c, pl, n) ==
    {[raised |-> stage,
      barplot_called |-> (stage # "sort"),
      barplot_data |-> IF stage # "sort" THEN Head_n(sorted, n) ELSE <<>>,
      ax_title |-> IF stage = "none" THEN TitleStr(n, c, pl) ELSE <<>>,
      printed |-> IF stage # "none" /\ Caught(kind)
                  THEN ErrorMessage ELSE <<>>,
      propagated |-> (stage # "none" /\ ~Caught(kind))]
        : stage \in {"none", "sort", "plot"}, kind \in ExceptionKinds,
          sorted \in SortValuesDescending(T)}

\* The else branch: the message, and no plot.
NoSales(c, pl) ==
    {[raised |-> "none",
      barplot_called |-> FALSE,
      barplot_data |-> <<>>,
      ax_title |-> <<>>,
      printed |-> NoSalesMessage(c, pl),
      propagated |-> FALSE]}

\* One call of plot_top_n_sales(start_date, end_date, country, productline,
\* top_n), from the date mask to the plot or the message.  The output area
\* holds what this call produced: interact clears it before each call.
plot_top_n_sales(s, e, c, pl, n) ==
    LET result == Cascade(product_sales_df, s, e, c, pl)
    IN  /\ product_sales_df' = TableAfterCall(product_sales_df, s, e)
        /\ filtered_df' = result
        /\ \E out \in (IF ~IsEmpty(result) THEN TryBlock(result, c, pl, n)
                       ELSE NoSales(c, pl)) :
              /\ raised' = out.raised
              /\ barplot_called' = out.barplot_called
              /\ barplot_data' = out.barplot_data
              /\ ax_title' = out.ax_title
              /\ printed' = out.printed
              /\ propagated' = out.propagated
        /\ IF first_args = <<>>
           THEN /\ first_args' = <<s, e, c, pl>>
                /\ first_filtered' = result
           ELSE UNCHANGED <<first_args, first_filtered>>
        /\ pc' = "shown"
        /\ UNCHANGED <<loaded_df, tfvars>>

\* widgets.interact calls the function once with the default values when the
\* cell is run ...
Interact ==
    /\ pc = "created"
    /\ plot_top_n_sales(start_date, end_date, country, productline, top_n)
    /\ UNCHANGED <<start_date, end_date, country, productline, top_n, away>>

\* ... and again, with the current values of all five widgets, whenever the
\* value of one of them changes.
StartDateChange ==
    /\ pc = "shown"
    /\ \E v \in StartDates \ {start_date} :
          /\ start_date' = v
          /\ plot_top_n_sales(v, end_date, country, productline, top_n)
    /\ away' = TRUE
    /\ UNCHANGED <<end_date, country, productline, top_n>>

EndDateChange ==
    /\ pc = "shown"
    /\ \E v \in EndDates \ {end_date} :
          /\ end_date' = v
          /\ plot_top_n_sales(start_date, v, country, productline, top_n)
    /\ away' = TRUE
    /\ UNCHANGED <<start_date, country, productline, top_n>>

CountryChange ==
    /\ pc = "shown"
    /\ \E v \in CountryOptions(product_sales_df) \ {country} :
          /\ country' = v
          /\ plot_top_n_sales(start_date, end_date, v, productline, top_n)
    /\ away' = TRUE
    /\ UNCHANGED <<start_date, end_date, productline, top_n>>

ProductLineChange ==
    /\ pc = "shown"
    /\ \E v \in ProductLineOptions(product_sales_df) \ {productline} :
          /\ productline' = v
          /\ plot_top_n_sales(start_date, end_date, country, v, top_n)
    /\ away' = TRUE
    /\ UNCHANGED <<start_date, end_date, country, top_n>>

TopNChange ==
    /\ pc = "shown"
    /\ \E v \in TopNValues \ {top_n} :
          /\ top_n' = v
          /\ plot_top_n_sales(start_date, end_date, country, productline, v)
    /\ UNCHANGED <<start_date, end_date, country, productline, away>>

Next ==
    \/ Interact
    \/ StartDateChange
    \/ EndDateChange
    \/ CountryChange
    \/ ProductLineChange
    \/ TopNChange

Spec == Init /\ [][Next]_vars

---------------------------------------------------------------------------
(* Provisioning: a resource is created once every resource it refers to is *)
(* in the state, with its references resolved against the state.           *)

NotebookClosed ==
    /\ product_sales_df = {}
    /\ loaded_df = {}
    /\ start_date = 1
    /\ end_date = 32
    /\ country = ALL
    /\ productline = ALL
    /\ top_n = DefaultTopN
    /\ pc = "closed"
    /\ filtered_df = {}
    /\ barplot_called = FALSE
    /\ barplot_data = <<>>
    /\ ax_title = <<>>
    /\ printed = <<>>
    /\ raised = "none"
    /\ propagated = FALSE
    /\ first_args = <<>>
    /\ first_filtered = {}
    /\ away = FALSE

TfInit ==
    /\ NotebookClosed
    /\ tf_var \in VariableValues
    /\ tf_state = NoResources

Create(r) ==
    /\ r \notin DOMAIN tf_state
    /\ References[r] \subseteq DOMAIN tf_state
    /\ tf_state' = (r :> Attributes(r, tf_var, tf_state)) @@ tf_state
    /\ UNCHANGED <<tf_var, dashvars>>

CreateDatabase == Create("ml_database")
CreateConnection == Create("rds_connection")
CreateCrawler == Create("s3_crawler")
CreateJob == Create("etl_job")

TfNext ==
    \/ CreateDatabase
    \/ CreateConnection
    \/ CreateCrawler
    \/ CreateJob

SpecTf == TfInit /\ [][TfNext]_vars

TypeOK ==
    /\ pc \in {"created", "shown", "closed"}
    /\ start_date \in StartDates
    /\ end_date \in OrderDates \cup EndDates
    /\ top_n \in MinTopN..MaxTopN
    /\ DOMAIN tf_state \subseteq ResourceNames

---------------------------------------------------------------------------
(* Vocabulary of the properties, stated over the table as loaded and the   *)
(* current widget values.                                                  *)

Shown == pc = "shown"

\* The loaded rows whose orderdate satisfies start_date <= orderdate <= end_date.
InRangeRows ==
    {r \in loaded_df : /\ Timestamp(start_date) <= r.orderdate
                       /\ r.orderdate <= Timestamp(end_date)}

\* The in-range rows that match the selected product line and country.
SelectedRows ==
    {r \in InRangeRows : /\ (productline = ALL \/ r.productline = productline)
                         /\ (country = ALL \/ r.country = country)}

OneRowPerName(T) ==
    \A r1, r2 \in T : r1.productname = r2.productname => r1 = r2

NamesOf(T) == {r.productname : r \in T}

RowsNamed(T, name) == {r \in T : r.productname = name}

RangeOf(seq) == {seq[i] : i \in 1..Len(seq)}

\* C1: with country and product line both "ALL" and start_date <= end_date,
\* the aggregated table's total_sales add up to the total_sales of exactly
\* the loaded rows whose orderdate lies in [start_date, end_date]; when every
\* row is in range this is the sum over the whole table.
C1_FilteredTotal ==
    (Shown /\ country = ALL /\ productline = ALL /\ start_date <= end_date)
        => /\ SumSales(filtered_df) = SumSales(InRangeRows)
           /\ (InRangeRows = loaded_df
                  => SumSales(filtered_df) = SumSales(loaded_df))

\* C1 witness: an ALL / ALL call whose range keeps one loaded row, on the
\* end date itself, and leaves another out.
C1_Witness ==
    /\ Shown /\ country = ALL /\ productline = ALL /\ start_date <= end_date
    /\ InRangeRows # {} /\ InRangeRows # loaded_df
    /\ \E r \in InRangeRows : r.orderdate = Timestamp(end_date)
    /\ SumSales(filtered_df) = SumSales(InRangeRows)

\* C2: with product line "ALL" and a specific country, the resulting table
\* has exactly one row per product name that has an in-range row for that
\* country, and the row's total_sales is the sum over all in-range rows of
\* that name and country, whatever their product line.
C2_AllProductLines ==
    (Shown /\ productline = ALL /\ country # ALL)
        => /\ NamesOf(filtered_df)
                = NamesOf({r \in InRangeRows : r.country = country})
           /\ OneRowPerName(filtered_df)
           /\ \A row \in filtered_df :
                 row.total_sales
                    = SumSales({r \in InRangeRows :
                                   /\ r.productname = row.productname
                                   /\ r.country = country})

\* C2 witness: the selected country has in-range rows of one product name in
\* two product lines, and the result holds their sum in one row.
C2_Witness ==
    /\ Shown /\ productline = ALL /\ country # ALL
    /\ \E r1, r2 \in InRangeRows :
          /\ r1.country = country /\ r2.country = country
          /\ r1.productname = r2.productname
          /\ r1.productline # r2.productline
          /\ \E row \in filtered_df :
                /\ row.productname = r1.productname
                /\ row.total_sales >= r1.total_sales + r2.total_sales

\* C3: with country "ALL", the resulting table has exactly one row per
\* product name that survives the date and product-line filters, and the
\* row's total_sales is the sum over all surviving rows of that name,
\* whatever their country.
C3_AllCountries ==
    (Shown /\ country = ALL)
        => /\ NamesOf(filtered_df) = NamesOf(SelectedRows)
           /\ OneRowPerName(filtered_df)
           /\ \A row \in filtered_df :
                 row.total_sales
                    = SumSales(RowsNamed(SelectedRows, row.productname))

\* C3 witness: a specific product line is selected and one of its products
\* has in-range rows in two countries, summed into one row.
C3_Witness ==
    /\ Shown /\ country = ALL /\ productline # ALL
    /\ \E r1, r2 \in SelectedRows :
          /\ r1.productname = r2.productname
          /\ r1.country # r2.country
          /\ \E row \in filtered_df :
                /\ row.productname = r1.productname
                /\ row.total_sales >= r1.total_sales + r2.total_sales

\* C4: whenever the plotting call is reached, the number of rows passed to
\* the bar plot is min(top_n, number of distinct product names of the
\* remaining table), and the remaining table never has two rows of the same
\* product name.
C4_TopNBound ==
    Shown =>
        /\ OneRowPerName(filtered_df)
        /\ barplot_called
              => Len(barplot_data)
                    = Min(top_n, Cardinality(NamesOf(filtered_df)))

\* C4 witness: the plot received fewer rows than the remaining table holds.
C4_Witness ==
    /\ Shown /\ barplot_called
    /\ Len(barplot_data) = top_n
    /\ Cardinality(NamesOf(filtered_df)) > top_n

\* The table of the worked example: (2024-01-01, Motorcycles, P1, USA, 100)
\* and (2024-02-01, Motorcycles, P1, France, 50).
ExampleTable ==
    {[orderdate |-> Timestamp(1), productline |-> "Motorcycles",
      productname |-> "P1", country |-> "USA", total_sales |-> 100],
     [orderdate |-> Timestamp(32), productline |-> "Motorcycles",
      productname |-> "P1", country |-> "France", total_sales |-> 50]}

ExampleCall ==
    /\ loaded_df = ExampleTable
    /\ start_date = 1 /\ end_date = 31
    /\ country = ALL /\ productline = "Motorcycles" /\ top_n = 5

\* C5: with a specific product line L, rows of other product lines and rows
\* dated outside [start_date, end_date] contribute nothing: every output row
\* is a product of line L and its total_sales is the sum over the in-range
\* rows of line L (and of the selected country) of that name.  On the worked
\* example the plotted output is the single row (P1, 100).
C5_ProductLineOnly ==
    (Shown /\ productline # ALL)
        => /\ \A row \in filtered_df :
                 /\ \E r \in InRangeRows : /\ r.productline = productline
                                           /\ r.productname = row.productname
                 /\ row.total_sales
                       = SumSales({r \in InRangeRows :
                                      /\ r.productline = productline
                                      /\ r.productname = row.productname
                                      /\ (country = ALL \/ r.country = country)})
           /\ (ExampleCall /\ barplot_called)
                 => barplot_data
                       = <<[productname |-> "P1", total_sales |-> 100]>>

\* C5 witness: the worked example has been plotted.
C5_Witness ==
    /\ Shown /\ ExampleCall /\ barplot_called /\ raised = "none"
    /\ Len(barplot_data) = 1
    /\ barplot_data[1].total_sales = 100

\* C6: after every call, if no in-range row matches the selected country and
\* product line (start_date > end_date included) the remaining table is
\* empty, the no-sales message with the selected values is printed and the
\* plotting routine is not called; otherwise the remaining table is not
\* empty, the plotting routine is attempted and the no-sales message is not
\* printed.
C6_NoSalesMessage ==
    Shown =>
        /\ (SelectedRows = {}) = (filtered_df = {})
        /\ filtered_df = {}
              => /\ printed = <<"There were no sales of", productline, "to",
                                country, "during that period">>
                 /\ ~barplot_called
                 /\ raised = "none"
        /\ filtered_df # {}
              => /\ barplot_called \/ raised # "none"
                 /\ printed \in {<<>>, <<"error">>}
        /\ start_date > end_date => filtered_df = {}

\* C6 witness: the loaded table has in-range rows, none of them for the
\* selected country and product line, and the message was printed.
C6_Witness ==
    /\ Shown /\ start_date <= end_date
    /\ InRangeRows # {} /\ SelectedRows = {}
    /\ country # ALL /\ productline # ALL
    /\ printed = NoSalesMessage(country, productline)

\* C7: an exception raised while sorting, truncating, plotting or labelling
\* is caught: "error" is printed, the exception does not leave
\* plot_top_n_sales, and the dashboard accepts the next widget change.
C7_BlanketGuard ==
    (Shown /\ raised # "none")
        => /\ printed = <<"error">>
           /\ ~propagated
           /\ pc = "shown"

\* C7 witness: the plotting call itself raised and "error" was printed.
C7_Witness ==
    /\ Shown /\ raised = "plot" /\ barplot_called
    /\ printed = <<"error">> /\ ~propagated

\* C8: the rows plotted are the first rows of the aggregated table in
\* non-increasing order of total_sales: they are rows of the remaining table,
\* ordered by non-increasing total_sales, and each has total_sales at least
\* that of every row of the remaining table that is not plotted.
C8_SortedTopN ==
    (Shown /\ barplot_called)
        => /\ RangeOf(barplot_data) \subseteq filtered_df
           /\ \A i, j \in 1..Len(barplot_data) :
                 i < j => barplot_data[i].total_sales
                             >= barplot_data[j].total_sales
           /\ \A p \in RangeOf(barplot_data) :
                 \A q \in filtered_df \ RangeOf(barplot_data) :
                    p.total_sales >= q.total_sales
           /\ \A row \in RangeOf(barplot_data) :
                 row.total_sales
                    = SumSales(RowsNamed(SelectedRows, row.productname))

\* C8 witness: the truncation dropped a row with strictly smaller
\* total_sales than the row plotted.
C8_Witness ==
    /\ Shown /\ barplot_called /\ raised = "none"
    /\ Len(barplot_data) = 1
    /\ \E q \in filtered_df : q.total_sales < barplot_data[1].total_sales

\* C10: plot_top_n_sales never modifies product_sales_df, so what is
\* displayed after any sequence of widget changes is determined by the
\* current widget values and the table as loaded, and bringing the date,
\* country and product-line widgets back to the values of the first call
\* brings back the table of the first call.
C10_TablePreserved ==
    /\ product_sales_df = loaded_df
    /\ Shown
          => /\ NamesOf(filtered_df) = NamesOf(SelectedRows)
             /\ \A row \in filtered_df :
                   row.total_sales
                      = SumSales(RowsNamed(SelectedRows, row.productname))
             /\ <<start_date, end_date, country, productline>> = first_args
                   => filtered_df = first_filtered

\* C10 witness: the widgets were changed and are back at the values of the
\* first call, and the table of the first call, which is not empty, is shown
\* again.
C10_Witness ==
    /\ Shown /\ away
    /\ <<start_date, end_date, country, productline>> = first_args
    /\ filtered_df = first_filtered
    /\ filtered_df # {}
    /\ Cardinality(loaded_df) > 1

---------------------------------------------------------------------------
(* The resource graph *)

RECURSIVE ReachableFrom(_, _)
ReachableFrom(R, n) ==
    IF n = 0 THEN R
    ELSE ReachableFrom(R \cup UNION {References[r] : r \in R}, n - 1)

\* The resources r depends on, directly or through other resources.
DependsOn(r) == ReachableFrom(References[r], Cardinality(ResourceNames))

Has(r) == r \in DOMAIN tf_state

\* C9: the crawler and the ETL job are wired to the same catalog database
\* (the crawler's database_name and the job's --glue_database argument are
\* both the name of ml_database), the job's connections list and its
\* --glue_connection argument both name the single rds_connection, and the
\* references between the four resources form no cycle: the database and the
\* connection depend on neither the crawler nor the job.
C9_ResourceWiring ==
    /\ Has("s3_crawler")
          => /\ Has("ml_database")
             /\ tf_state.s3_crawler.database_name = tf_state.ml_database.name
    /\ Has("etl_job")
          => /\ Has("ml_database") /\ Has("rds_connection")
             /\ tf_state.etl_job.default_arguments["--glue_database"]
                   = tf_state.ml_database.name
             /\ tf_state.etl_job.connections
                   = <<tf_state.rds_connection.name>>
             /\ tf_state.etl_job.default_arguments["--glue_connection"]
                   = tf_state.rds_connection.name
    /\ (Has("s3_crawler") /\ Has("etl_job"))
          => tf_state.s3_crawler.database_name
                = tf_state.etl_job.default_arguments["--glue_database"]
    /\ \A r \in ResourceNames : r \notin DependsOn(r)
    /\ DependsOn("ml_database") \cap {"s3_crawler", "etl_job"} = {}
    /\ DependsOn("rds_connection") \cap {"s3_crawler", "etl_job"} = {}

\* C9 witness: all four resources have been created, the crawler and the job
\* holding the database's name.
C9_Witness ==
    /\ DOMAIN tf_state = ResourceNames
    /\ tf_state.s3_crawler.database_name = <<tf_var.project, "-ml-db">>
    /\ tf_state.etl_job.default_arguments["--glue_database"]
          = <<tf_var.project, "-ml-db">>

====
